---- MODULE Spec2Model ----
(***************************************************************************)
(* Reliability calculus of the operational-performance simulator:          *)
(* core.py (availability, reverse solvers, operational DF) and app.py      *)
(* (calcular_kpis, calcular_ponto_otimo_intervencao).                      *)
(*                                                                         *)
(* Python floats are modelled as exact rationals [n, d] in lowest terms    *)
(* with d > 0; d = 0 encodes the non-finite floats: n = 1 is +inf,         *)
(* n = -1 is -inf and n = 0 is NaN.  A call's outcome is a record          *)
(* [kind, val]: kind "return" carries the returned float, kind "raise"     *)
(* is a Python exception (ZeroDivisionError).                              *)
(***************************************************************************)
EXTENDS Integers, Sequences, FiniteSets, TLC

VARIABLES fn, args, ret, prev, curva, calls, session_state

vars == <<fn, args, ret, prev, curva, calls, session_state>>

(* ------------------------------ bounds -------------------------------- *)
\* hour inputs range over n/d with -NegHours <= n <= MaxHours, 1 <= d <= MaxDen
MaxHours == 3
NegHours == 1
MaxDen == 2
\* availability targets range over n/DenDF with -1 <= n <= DenDF + 1
DenDF == 4
\* failure counts 0..MaxFalhas
MaxFalhas == 2
\* observation tables hold up to MaxObs rows
MaxObs == 2
\* the fleet table is grown up to MaxFrota rows
MaxFrota == 5
\* the curve fitter is given up to MaxFitObs rows
MaxFitObs == 3

(* ------------------------- rational arithmetic ------------------------ *)
Abs(x) == IF x < 0 THEN -x ELSE x

RECURSIVE GCD(_, _)
GCD(a, b) == IF b = 0 THEN a ELSE GCD(b, a % b)

\* the float n/d (d # 0), in lowest terms with a positive denominator
Rat(n, d) ==
    LET s == IF d < 0 THEN -1 ELSE 1
        g == GCD(Abs(n), Abs(d))
    IN  [n |-> (s * n) \div g, d |-> (s * d) \div g]

Zero == Rat(0, 1)
One == Rat(1, 1)
Hundred == Rat(100, 1)
Inf == [n |-> 1, d |-> 0]
NaN == [n |-> 0, d |-> 0]

IsFinite(x) == x.d > 0
IsInf(x) == x.d = 0 /\ x.n = 1
IsNaN(x) == x.d = 0 /\ x.n = 0

RAdd(x, y) == Rat(x.n * y.d + y.n * x.d, x.d * y.d)
RSub(x, y) == Rat(x.n * y.d - y.n * x.d, x.d * y.d)
RMul(x, y) == Rat(x.n * y.n, x.d * y.d)
\* x / y for finite x and finite y # 0
RDiv(x, y) == Rat(x.n * y.d, x.d * y.n)
\* comparisons of finite floats
RLt(x, y) == x.n * y.d < y.n * x.d
RLe(x, y) == x.n * y.d <= y.n * x.d
RGt(x, y) == RLt(y, x)
RGe(x, y) == RLe(y, x)
RMax(x, y) == IF RGt(y, x) THEN y ELSE x

Return(v) == [kind |-> "return", val |-> v]
Raise == [kind |-> "raise", val |-> NaN]

(* ------------------------------ inputs -------------------------------- *)
Hours == {Rat(n, d) : n \in -NegHours..MaxHours, d \in 1..MaxDen}
Targets == {Rat(n, DenDF) : n \in -1..(DenDF + 1)}
Falhas == 0..MaxFalhas
Metodos == {"metodo1", "metodo2"}

\* observation tables: up to MaxObs rows, in any order of time
TemposObs == {Rat(0, 1), Rat(1, 1), Rat(2, 1)}
\* (mtbf_observado, mttr_observado): DF 80, 66.7, 50 and 0/0
ObsPairs == {<<Rat(4, 1), Rat(1, 1)>>, <<Rat(2, 1), Rat(1, 1)>>,
             <<Rat(1, 1), Rat(1, 1)>>, <<Rat(0, 1), Rat(0, 1)>>}
ObsRows ==
    {[tempo_desde_preventiva_horas |-> t,
      mtbf_observado |-> p[1],
      mttr_observado |-> p[2],
      num_falhas |-> f] : t \in TemposObs, p \in ObsPairs, f \in 0..1}
ObsSeqs == UNION {[1..k -> ObsRows] : k \in 0..MaxObs}
\* the degradation scenario (t, mtbf) = (0,200), (100,150), (200,100), with
\* the MTTR and the failure count of each observation left open
CenarioPontos == <<<<Rat(0, 1), Rat(200, 1)>>, <<Rat(100, 1), Rat(150, 1)>>,
                   <<Rat(200, 1), Rat(100, 1)>>>>
CenarioMttrs == {Rat(5, 1), Rat(20, 1), Rat(50, 1)}
CenarioSeqs ==
    {[i \in 1..3 |-> [tempo_desde_preventiva_horas |-> CenarioPontos[i][1],
                      mtbf_observado |-> CenarioPontos[i][2],
                      mttr_observado |-> r[i],
                      num_falhas |-> f[i]]] :
        r \in [1..3 -> CenarioMttrs], f \in [1..3 -> 1..(MaxFalhas + 2)]}
\* tables for the curve fitter, which reads the time and the MTBF only
FitMtbfs == {Rat(2, 1), Rat(4, 1)}
FitRows ==
    {[tempo_desde_preventiva_horas |-> t,
      mtbf_observado |-> m,
      mttr_observado |-> Rat(1, 1),
      num_falhas |-> 0] : t \in TemposObs, m \in FitMtbfs}
FitSeqs == UNION {[1..k -> FitRows] : k \in 0..MaxFitObs}
\* the MTBF and MTTR the matrix page reads from the session (defaults 500, 25)
SessionMtbfs == {Rat(500, 1), Rat(100, 1), Rat(2, 1)}
SessionMttrs == {Rat(25, 1), Rat(5, 1), Rat(1, 1)}
\* the inputs of the scale view: two unbounded number inputs (defaults 720,
\* 40) and two range sliders (10..500 and 1..50, defaults (50, 300), (2, 20))
EscalaCalendario == {Rat(720, 1), Rat(100, 1), Rat(0, 1)}
EscalaPreventiva == {Rat(40, 1), Rat(0, 1)}
EscalaMtbfRanges == {<<Rat(50, 1), Rat(300, 1)>>, <<Rat(10, 1), Rat(500, 1)>>,
                     <<Rat(10, 1), Rat(10, 1)>>}
EscalaMttrRanges == {<<Rat(2, 1), Rat(20, 1)>>, <<Rat(1, 1), Rat(50, 1)>>,
                     <<Rat(1, 1), Rat(1, 1)>>}
\* reverse mode: target 0..100 (default 85), calendar hours >= 1 (default
\* 720), failures >= 0 (default 5), MTTR >= 0.5 (default 6)
MetasReverso == {Rat(0, 1), Rat(50, 1), Rat(85, 1), Rat(100, 1)}
CalendarioReverso == {Rat(1, 1), Rat(24, 1), Rat(720, 1)}
MttrsReverso == {Rat(1, 2), Rat(6, 1)}
\* report dates: the page's default (2025-10-24), a last day of a month,
\* a leap day and a first day of February
Datas == {[year |-> 2025, month |-> 10, day |-> 24],
          [year |-> 2025, month |-> 10, day |-> 31],
          [year |-> 2024, month |-> 2, day |-> 29],
          [year |-> 2025, month |-> 2, day |-> 1]}
\* fleet rows handed to processar_dados_frota ('Orcado DF' as a fraction)
FrotaEntradas ==
    {[c \in {"Equipamento", "Corretiva Real", "Preventiva Real", "Orcado DF",
              "Cor Orc (Mes)", "Prev Orc (Mes)", "MTBF (h)", "MTTR (h)"} |->
        CASE c = "Equipamento" -> [prefix |-> "PF", digits |-> <<0, 1>>]
          [] c = "Corretiva Real" -> cor
          [] c = "Preventiva Real" -> prv
          [] c = "Orcado DF" -> orcado
          [] c = "Cor Orc (Mes)" -> Rat(50, 1)
          [] c = "Prev Orc (Mes)" -> Rat(100, 1)
          [] c = "MTBF (h)" -> mtbf
          [] c = "MTTR (h)" -> mttr] :
        cor \in {Rat(0, 1), Rat(100, 1)}, prv \in {Rat(0, 1), Rat(700, 1)},
        orcado \in {Rat(1, 2), Rat(1, 1)},
        mtbf \in {Rat(-1, 1), Rat(0, 1), Rat(300, 1)},
        mttr \in {Rat(-10, 1), Rat(0, 1), Rat(10, 1)}}
DfAlvos == {Rat(70, 1), Rat(80, 1)}
CustosPreventiva == {Rat(0, 1), Rat(1, 1)}
CustosCorretiva == {Rat(0, 1), Rat(5, 1)}

(* ------------------------- core.py: availability ---------------------- *)
\* np.divide(mtbf, denominator, out=zeros, where=denominator != 0)
df_from_mtbf_mttr_gt(mtbf, mttr) ==
    LET denominator == RAdd(mtbf, mttr)
    IN  IF RGt(denominator, Zero) THEN Return(RDiv(mtbf, denominator))
        ELSE Return(Zero)

df_from_mtbf_mttr_mttr(mtbf, mttr) ==
    LET denominator == RAdd(mtbf, mttr)
    IN  IF denominator # Zero THEN Return(RDiv(mttr, denominator))
        ELSE Return(Zero)

df_from_mtbf_mttr(mtbf, mttr) ==
    LET denominator == RAdd(mtbf, mttr)
    IN  IF denominator # Zero THEN Return(RDiv(mtbf, denominator))
        ELSE Return(Zero)

(* ------------------------ core.py: reverse solvers -------------------- *)
mttr_for_df_swapped(mtbf, df_target) ==
    IF RGe(df_target, One) THEN Return(Zero)
    ELSE IF RLe(df_target, Zero) THEN Return(Inf)
    ELSE Return(RDiv(RMul(mtbf, df_target), RSub(One, df_target)))

mttr_for_df_nocheck(mtbf, df_target) ==
    IF RGe(df_target, One) THEN Return(Zero)
    ELSE IF df_target = Zero THEN Raise
    ELSE Return(RDiv(RMul(mtbf, RSub(One, df_target)), df_target))

mttr_for_df_zero(mtbf, df_target) ==
    IF RGe(df_target, One) THEN Return(Zero)
    ELSE IF RLe(df_target, Zero) THEN Return(Zero)
    ELSE Return(RDiv(RMul(mtbf, RSub(One, df_target)), df_target))

mttr_for_df(mtbf, df_target) ==
    IF RGe(df_target, One) THEN Return(Zero)
    ELSE IF RLe(df_target, Zero) THEN Return(Inf)
    ELSE Return(RDiv(RMul(mtbf, RSub(One, df_target)), df_target))

mtbf_for_df_swapped(mttr, df_target) ==
    IF RGe(df_target, One) THEN Return(Inf)
    ELSE IF RLe(df_target, Zero) THEN Return(Zero)
    ELSE Return(RDiv(RMul(mttr, RSub(One, df_target)), df_target))

mtbf_for_df_nocheck(mttr, df_target) ==
    IF RGt(df_target, One) THEN Return(Inf)
    ELSE IF RLe(df_target, Zero) THEN Return(Zero)
    ELSE IF df_target = One THEN Raise
    ELSE Return(RDiv(RMul(mttr, df_target), RSub(One, df_target)))

mtbf_for_df(mttr, df_target) ==
    IF RGe(df_target, One) THEN Return(Inf)
    ELSE IF RLe(df_target, Zero) THEN Return(Zero)
    ELSE Return(RDiv(RMul(mttr, df_target), RSub(One, df_target)))

(* ------------------------ core.py: operational DF --------------------- *)
calculate_operational_df_noclamp(inherent_availability, pm_downtime_hours, calendar_hours) ==
    IF calendar_hours = Zero THEN Return(inherent_availability)
    ELSE Return(RSub(inherent_availability, RDiv(pm_downtime_hours, calendar_hours)))

calculate_operational_df_mult(inherent_availability, pm_downtime_hours, calendar_hours) ==
    IF calendar_hours = Zero THEN Return(inherent_availability)
    ELSE LET pm_impact == RDiv(pm_downtime_hours, calendar_hours)
         IN  Return(RMax(Zero, RMul(inherent_availability, RSub(One, pm_impact))))

calculate_operational_df(inherent_availability, pm_downtime_hours, calendar_hours) ==
    IF calendar_hours = Zero THEN Return(inherent_availability)
    ELSE LET pm_impact == RDiv(pm_downtime_hours, calendar_hours)
         IN  Return(RMax(Zero, RSub(inherent_availability, pm_impact)))

(* --------------------------- app.py: KPIs ----------------------------- *)
calcular_kpis_sem_manutencao(horas_calendario, horas_preventiva, horas_corretiva, num_falhas, metodo) ==
    LET nf == Rat(num_falhas, 1)
        horas_manutencao_total == RAdd(horas_preventiva, horas_corretiva)
        horas_disponiveis == RSub(horas_calendario, horas_preventiva)
        horas_operadas ==
            IF metodo = "metodo1" THEN RSub(horas_calendario, horas_manutencao_total)
            ELSE RSub(horas_disponiveis, horas_corretiva)
        mtbf ==
            IF metodo = "metodo1"
            THEN (IF num_falhas > 0 THEN RDiv(horas_operadas, nf) ELSE Zero)
            ELSE (IF num_falhas > 0 THEN RDiv(horas_disponiveis, nf) ELSE Zero)
        mttr_temp == IF num_falhas > 0 THEN RDiv(horas_corretiva, nf) ELSE Zero
        df ==
            IF metodo = "metodo1"
            THEN (IF RGt(horas_calendario, Zero)
                  THEN RMul(RDiv(horas_operadas, horas_calendario), Hundred)
                  ELSE Zero)
            ELSE (IF RGt(RAdd(mtbf, mttr_temp), Zero)
                  THEN RMul(RDiv(mtbf, RAdd(mtbf, mttr_temp)), Hundred)
                  ELSE Zero)
        mttr == IF num_falhas > 0 THEN RDiv(horas_corretiva, nf) ELSE Zero
        horas_standby ==
            RMax(Zero, RSub(horas_calendario, horas_operadas))
        taxa_preventiva ==
            IF RGt(horas_manutencao_total, Zero)
            THEN RMul(RDiv(horas_preventiva, horas_manutencao_total), Hundred)
            ELSE Zero
    IN  Return([df |-> df,
                mtbf |-> mtbf,
                mttr |-> mttr,
                taxa_preventiva |-> taxa_preventiva,
                horas_operadas |-> horas_operadas,
                horas_manutencao_total |-> horas_manutencao_total,
                horas_preventiva |-> horas_preventiva,
                horas_corretiva |-> horas_corretiva,
                horas_standby |-> horas_standby,
                horas_calendario |-> horas_calendario,
                horas_disponiveis |->
                    IF metodo = "metodo2" THEN horas_disponiveis ELSE horas_calendario])

\* the dict calcular_kpis returns; num_falhas is an integer count
calcular_kpis(horas_calendario, horas_preventiva, horas_corretiva, num_falhas, metodo) ==
    LET nf == Rat(num_falhas, 1)
        horas_manutencao_total == RAdd(horas_preventiva, horas_corretiva)
        horas_disponiveis == RSub(horas_calendario, horas_preventiva)
        horas_operadas ==
            IF metodo = "metodo1" THEN RSub(horas_calendario, horas_manutencao_total)
            ELSE RSub(horas_disponiveis, horas_corretiva)
        mtbf ==
            IF metodo = "metodo1"
            THEN (IF num_falhas > 0 THEN RDiv(horas_operadas, nf) ELSE Zero)
            ELSE (IF num_falhas > 0 THEN RDiv(horas_disponiveis, nf) ELSE Zero)
        mttr_temp == IF num_falhas > 0 THEN RDiv(horas_corretiva, nf) ELSE Zero
        df ==
            IF metodo = "metodo1"
            THEN (IF RGt(horas_calendario, Zero)
                  THEN RMul(RDiv(horas_operadas, horas_calendario), Hundred)
                  ELSE Zero)
            ELSE (IF RGt(RAdd(mtbf, mttr_temp), Zero)
                  THEN RMul(RDiv(mtbf, RAdd(mtbf, mttr_temp)), Hundred)
                  ELSE Zero)
        mttr == IF num_falhas > 0 THEN RDiv(horas_corretiva, nf) ELSE Zero
        horas_standby ==
            RMax(Zero, RSub(RSub(horas_calendario, horas_operadas), horas_manutencao_total))
        taxa_preventiva ==
            IF RGt(horas_manutencao_total, Zero)
            THEN RMul(RDiv(horas_preventiva, horas_manutencao_total), Hundred)
            ELSE Zero
    IN  Return([df |-> df,
                mtbf |-> mtbf,
                mttr |-> mttr,
                taxa_preventiva |-> taxa_preventiva,
                horas_operadas |-> horas_operadas,
                horas_manutencao_total |-> horas_manutencao_total,
                horas_preventiva |-> horas_preventiva,
                horas_corretiva |-> horas_corretiva,
                horas_standby |-> horas_standby,
                horas_calendario |-> horas_calendario,
                horas_disponiveis |->
                    IF metodo = "metodo2" THEN horas_disponiveis ELSE horas_calendario])

(* ------------------- app.py: cost-optimal selector -------------------- *)
\* pandas/numpy float arithmetic: a zero divisor gives NaN or +-inf, no exception
NegInf == [n |-> -1, d |-> 0]
PDiv(x, y) ==
    IF ~IsFinite(x) \/ ~IsFinite(y) THEN NaN
    ELSE IF y = Zero THEN (IF x = Zero THEN NaN ELSE IF x.n > 0 THEN Inf ELSE NegInf)
    ELSE RDiv(x, y)
PMul(x, y) ==
    IF IsFinite(x) /\ IsFinite(y) THEN RMul(x, y)
    ELSE IF IsNaN(x) \/ IsNaN(y) \/ x = Zero \/ y = Zero THEN NaN
    ELSE IF (x.n > 0) = (y.n > 0) THEN Inf ELSE NegInf
\* x >= y on floats: False as soon as one side is NaN
PGe(x, y) == ~IsNaN(x) /\ ~IsNaN(y) /\ x.n * y.d >= y.n * x.d

\* a DataFrame: its column names and its rows (index labels 1..Len(rows))
NoTable == [columns |-> {}, rows |-> <<>>]
CurvaColumns ==
    {"tempo_desde_preventiva_horas", "mtbf_observado", "mttr_observado", "num_falhas"}

RECURSIVE SumFalhas_antes(_, _, _)
SumFalhas_antes(rows, tempo, i) ==
    IF i > Len(rows) THEN 0
    ELSE (IF RLt(rows[i].tempo_desde_preventiva_horas, tempo) THEN rows[i].num_falhas ELSE 0)
         + SumFalhas_antes(rows, tempo, i + 1)

RECURSIVE SumFalhas(_, _, _)
\* df_curva[df_curva['tempo_desde_preventiva_horas'] <= tempo]['num_falhas'].sum()
SumFalhas(rows, tempo, i) ==
    IF i > Len(rows) THEN 0
    ELSE (IF RLe(rows[i].tempo_desde_preventiva_horas, tempo) THEN rows[i].num_falhas ELSE 0)
         + SumFalhas(rows, tempo, i + 1)

\* Series.max() of finite floats
SeriesMax(S) == CHOOSE m \in S : \A x \in S : RLe(x, m)

IdxMin_last(cost, idx) ==
    CHOOSE i \in idx : \A j \in idx :
        /\ RLe(cost[i], cost[j])
        /\ (cost[j] = cost[i] => i >= j)

\* Series.idxmin(): the first label holding the minimum, among the labels in idx
IdxMin(cost, idx) ==
    CHOOSE i \in idx : \A j \in idx :
        /\ RLe(cost[i], cost[j])
        /\ (cost[j] = cost[i] => i <= j)

\* the argument table as the call leaves it (df_curva['df_calculada'] = ...)
WithDfCalculada(df_curva) ==
    [columns |-> df_curva.columns \cup {"df_calculada"},
     rows |-> [i \in 1..Len(df_curva.rows) |->
        LET row == df_curva.rows[i]
            m == row.mtbf_observado
            r == row.mttr_observado
        IN  [c \in DOMAIN row \cup {"df_calculada"} |->
                IF c = "df_calculada" THEN PMul(PDiv(m, RAdd(m, r)), Hundred)
                ELSE row[c]]]]

\* custo_por_hora = custo_total / tempo if tempo > 0 else 0
CustoPorHora(custo_total, tempo) ==
    IF RGt(tempo, Zero) THEN RDiv(custo_total, tempo) ELSE Zero

\* the list custos built by the loop over df_curva.iterrows()
Custos(rows, custo_preventiva, custo_corretiva) ==
    [i \in 1..Len(rows) |->
        LET tempo == rows[i].tempo_desde_preventiva_horas
            num_falhas_acum == SumFalhas(rows, tempo, 1)
            custo_total == RAdd(custo_preventiva, RMul(Rat(num_falhas_acum, 1), custo_corretiva))
        IN  [tempo |-> tempo,
             custo_total |-> custo_total,
             custo_por_hora |-> CustoPorHora(custo_total, tempo),
             df |-> rows[i].df_calculada]]

AcimaAlvo_tolerante(rows, df_alvo) ==
    {i \in 1..Len(rows) : PGe(rows[i].df_calculada, RMul(df_alvo, Rat(95, 100)))}

\* df_curva[df_curva['df_calculada'] >= df_alvo]: the labels of the rows kept
AcimaAlvo(rows, df_alvo) ==
    {i \in 1..Len(rows) : PGe(rows[i].df_calculada, df_alvo)}

Viavel_exato(df_custos, df_alvo) ==
    {i \in 1..Len(df_custos) : PGe(df_custos[i].df, df_alvo)}

\* df_custos[df_custos['df'] >= df_alvo * 0.95]: the labels of the rows kept
Viavel(df_custos, df_alvo) ==
    {i \in 1..Len(df_custos) : PGe(df_custos[i].df, RMul(df_alvo, Rat(95, 100)))}

calcular_ponto_otimo_intervencao_meio(df_curva, df_alvo, custo_preventiva, custo_corretiva) ==
    LET rows == WithDfCalculada(df_curva).rows
        df_acima_alvo == AcimaAlvo(rows, df_alvo)
        tempo_max_alvo ==
            IF Cardinality(df_acima_alvo) > 0
            THEN SeriesMax({rows[i].tempo_desde_preventiva_horas : i \in df_acima_alvo})
            ELSE Zero
        df_custos == Custos(rows, custo_preventiva, custo_corretiva)
        df_custos_viavel == Viavel(df_custos, df_alvo)
        cost == [i \in 1..Len(rows) |-> df_custos[i].custo_por_hora]
        idx_otimo ==
            IF Cardinality(df_custos_viavel) > 0 THEN IdxMin(cost, df_custos_viavel)
            ELSE IdxMin(cost, 1..Len(rows))
        ponto_otimo == df_custos[idx_otimo]
        ultimo == SeriesMax({rows[i].tempo_desde_preventiva_horas : i \in 1..Len(rows)})
    IN  IF Len(rows) = 0 THEN Raise
        ELSE Return([tempo_otimo |-> RDiv(RAdd(ponto_otimo.tempo, ultimo), Rat(2, 1)),
                     df_no_ponto_otimo |-> ponto_otimo.df,
                     custo_por_hora_otimo |-> ponto_otimo.custo_por_hora,
                     tempo_max_alvo |-> tempo_max_alvo,
                     df_custos |-> df_custos])

calcular_ponto_otimo_intervencao(df_curva, df_alvo, custo_preventiva, custo_corretiva) ==
    LET rows == WithDfCalculada(df_curva).rows
        df_acima_alvo == AcimaAlvo(rows, df_alvo)
        tempo_max_alvo ==
            IF Cardinality(df_acima_alvo) > 0
            THEN SeriesMax({rows[i].tempo_desde_preventiva_horas : i \in df_acima_alvo})
            ELSE Zero
        df_custos == Custos(rows, custo_preventiva, custo_corretiva)
        df_custos_viavel == Viavel(df_custos, df_alvo)
        cost == [i \in 1..Len(rows) |-> df_custos[i].custo_por_hora]
        idx_otimo ==
            IF Cardinality(df_custos_viavel) > 0 THEN IdxMin(cost, df_custos_viavel)
            ELSE IdxMin(cost, 1..Len(rows))
        ponto_otimo == df_custos[idx_otimo]
    IN  \* an empty table: pd.DataFrame([]) has no 'df' column (KeyError)
        IF Len(rows) = 0 THEN Raise
        ELSE Return([tempo_otimo |-> ponto_otimo.tempo,
                     df_no_ponto_otimo |-> ponto_otimo.df,
                     custo_por_hora_otimo |-> ponto_otimo.custo_por_hora,
                     tempo_max_alvo |-> tempo_max_alvo,
                     df_custos |-> df_custos])

(* ------------------------ app.py: curve fitter ------------------------ *)
PAdd(x, y) ==
    IF IsFinite(x) /\ IsFinite(y) THEN RAdd(x, y)
    ELSE IF IsNaN(x) \/ IsNaN(y) THEN NaN
    ELSE IF IsFinite(x) THEN y
    ELSE IF IsFinite(y) \/ x = y THEN x
    ELSE NaN
PNeg(x) == [n |-> -x.n, d |-> x.d]
PSub(x, y) == PAdd(x, PNeg(y))

\* the number of points of np.linspace(x.min(), x.max(), 100)
NumPoints == 100

LinSpace_noend(lo, hi, num) ==
    [i \in 1..num |-> RAdd(lo, RMul(Rat(i - 1, num), RSub(hi, lo)))]

\* np.linspace(lo, hi, num): num points, both ends included
LinSpace(lo, hi, num) ==
    [i \in 1..num |-> RAdd(lo, RMul(Rat(i - 1, num - 1), RSub(hi, lo)))]

SeriesMin(S) == CHOOSE m \in S : \A x \in S : RLe(m, x)

\* the position of element i of x once sorted (np.argsort; equal keys keep
\* their order)
Rank(x, i) ==
    Cardinality({j \in 1..Len(x) : RLt(x[j], x[i]) \/ (x[j] = x[i] /\ j < i)}) + 1
\* v taken in the order of the sorted x
SortBy(x, v) == [k \in 1..Len(x) |-> v[CHOOSE i \in 1..Len(x) : Rank(x, i) = k]]

\* interp1d(x, y, kind='linear', fill_value='extrapolate')(x_new):
\* searchsorted, clip(1, len(x)-1), then slope*(x_new - x_lo) + y_lo
Interp1d(x, y, x_new) ==
    LET xs == SortBy(x, x)
        ys == SortBy(x, y)
        n == Len(xs)
        found == Cardinality({j \in 1..n : RLt(xs[j], x_new)})
        clipped == IF found < 1
                   THEN (IF 1 > n - 1 THEN n - 1 ELSE 1)
                   ELSE (IF found > n - 1 THEN n - 1 ELSE found)
        \* 0-based lo = clipped - 1 (-1 is the last element), hi = clipped
        lo == IF clipped = 0 THEN n ELSE clipped
        hi == clipped + 1
        slope == PDiv(PSub(ys[hi], ys[lo]), PSub(xs[hi], xs[lo]))
    IN  PAdd(PMul(slope, PSub(x_new, xs[lo])), ys[lo])

PyNone == [tag |-> "None", a |-> NaN, b |-> NaN, c |-> NaN]
Popt(a, b, c) == [tag |-> "ndarray", a |-> a, b |-> b, c |-> c]

\* what scipy's curve_fit can answer for n data points and the 3 parameters
\* of func_exp: it raises when n < 3 (more parameters than points); otherwise
\* it raises (no convergence within maxfev) or returns parameters, which may
\* be non-finite
FitRaises == [raises |-> TRUE, popt |-> PyNone]
FitReturns(p) == [raises |-> FALSE, popt |-> p]
CurveFitOutcomes(n) ==
    IF n < 3 THEN {FitRaises}
    ELSE {FitRaises,
          FitReturns(Popt(Rat(3, 1), Rat(1, 1000), Rat(1, 1))),
          FitReturns(Popt(NaN, NaN, NaN))}

\* func_exp(x, a, b, c) = a * exp(-b * x) + c, kept as a term
func_exp(x, popt) == [f |-> "func_exp", x |-> x, popt |-> popt]

Tempos(df_curva) ==
    [i \in 1..Len(df_curva.rows) |-> df_curva.rows[i].tempo_desde_preventiva_horas]
Mtbfs(df_curva) ==
    [i \in 1..Len(df_curva.rows) |-> df_curva.rows[i].mtbf_observado]
Range(f) == {f[i] : i \in DOMAIN f}

\* the try block once curve_fit has returned popt
ExpBranch(x, y, popt) ==
    LET x_fit == LinSpace(SeriesMin(Range(x)), SeriesMax(Range(x)), NumPoints)
        y_fit == [i \in 1..NumPoints |-> func_exp(x_fit[i], popt)]
    IN  Return([x_fit |-> x_fit, y_fit |-> y_fit, popt |-> popt])

InterpBranch_raise(x, y) == Raise

InterpBranch_p0(x, y) ==
    IF Len(x) = 0 THEN Raise
    ELSE LET x_fit == LinSpace(SeriesMin(Range(x)), SeriesMax(Range(x)), NumPoints)
             y_fit == [i \in 1..NumPoints |-> Interp1d(x, y, x_fit[i])]
         IN  Return([x_fit |-> x_fit, y_fit |-> y_fit,
                     popt |-> Popt(y[1], Rat(1, 1000), y[Len(y)])])

\* the except block: interp1d raises on empty arrays (ValueError)
InterpBranch(x, y) ==
    IF Len(x) = 0 THEN Raise
    ELSE LET x_fit == LinSpace(SeriesMin(Range(x)), SeriesMax(Range(x)), NumPoints)
             y_fit == [i \in 1..NumPoints |-> Interp1d(x, y, x_fit[i])]
         IN  Return([x_fit |-> x_fit, y_fit |-> y_fit, popt |-> PyNone])

\* fit: the answer of curve_fit, if it gets called (p0 = [y[0], 0.001, y[-1]]
\* raises IndexError on an empty table before curve_fit is reached)
ajustar_curva_degradacao(df_curva, fit) ==
    LET x == Tempos(df_curva)
        y == Mtbfs(df_curva)
    IN  IF Len(y) = 0
        THEN [ret |-> InterpBranch(x, y), calls |-> <<"interp1d">>]
        ELSE IF fit.raises
        THEN [ret |-> InterpBranch(x, y), calls |-> <<"curve_fit", "interp1d">>]
        ELSE [ret |-> ExpBranch(x, y, fit.popt), calls |-> <<"curve_fit">>]

(* ----------------------------- DF grids ------------------------------ *)
\* the grid of the matrix page has MatrizPoints points per axis, the grid of
\* the scale view EscalaPoints
MatrizPoints == 50
EscalaPoints == 15

MeshGrid_ij(xs, ys) ==
    [X |-> [i \in 1..Len(ys) |-> [j \in 1..Len(xs) |-> xs[i]]],
     Y |-> [i \in 1..Len(ys) |-> [j \in 1..Len(xs) |-> ys[j]]]]

\* np.meshgrid(xs, ys): row i, column j holds (xs[j], ys[i])
MeshGrid(xs, ys) ==
    [X |-> [i \in 1..Len(ys) |-> [j \in 1..Len(xs) |-> xs[j]]],
     Y |-> [i \in 1..Len(ys) |-> [j \in 1..Len(xs) |-> ys[i]]]]

\* pages/1_Matriz_MTBFxMTTR.py: Z_df, with the two axes it is drawn over
Z_df(mtbf_atual, mttr_atual) ==
    LET mtbf_range == LinSpace(RMax(One, RMul(mtbf_atual, Rat(2, 10))),
                               RMul(mtbf_atual, Rat(2, 1)), MatrizPoints)
        mttr_range == LinSpace(RMax(One, RMul(mttr_atual, Rat(2, 10))),
                               RMul(mttr_atual, Rat(2, 1)), MatrizPoints)
        mesh == MeshGrid(mtbf_range, mttr_range)
    IN  Return([mtbf_range |-> mtbf_range,
                mttr_range |-> mttr_range,
                Z_df |-> [i \in 1..MatrizPoints |-> [j \in 1..MatrizPoints |->
                            df_from_mtbf_mttr(mesh.X[i][j], mesh.Y[i][j]).val]]])

\* Python int() of a float: truncation toward zero
PyInt(x) == IF x.n >= 0 THEN x.n \div x.d ELSE -((-x.n) \div x.d)

\* app.py, "Escala MTBF/MTTR vs DF": one cell of df_matrix
EscalaCell(horas_calendario_escala, horas_preventiva_escala, mtbf_val, mttr_val, metodo_atual) ==
    IF metodo_atual = "metodo2"
    THEN RMul(RDiv(mtbf_val, RAdd(mtbf_val, mttr_val)), Hundred)
    ELSE LET horas_disponiveis == RSub(horas_calendario_escala, horas_preventiva_escala)
             int_falhas == PyInt(RDiv(horas_disponiveis, mtbf_val))
             num_falhas_est == IF int_falhas > 1 THEN int_falhas ELSE 1
             horas_corretiva_est == RMul(Rat(num_falhas_est, 1), mttr_val)
             kpis_escala == calcular_kpis(horas_calendario_escala,
                                          horas_preventiva_escala,
                                          horas_corretiva_est,
                                          num_falhas_est,
                                          metodo_atual)
         IN  kpis_escala.val.df

\* app.py, "Escala MTBF/MTTR vs DF": df_matrix, with its two axes
df_matrix(horas_calendario_escala, horas_preventiva_escala, mtbf_range, mttr_range, metodo_atual) ==
    LET mtbf_valores == LinSpace(mtbf_range[1], mtbf_range[2], EscalaPoints)
        mttr_valores == LinSpace(mttr_range[1], mttr_range[2], EscalaPoints)
    IN  Return([mtbf_valores |-> mtbf_valores,
                mttr_valores |-> mttr_valores,
                df_matrix |-> [i \in 1..EscalaPoints |-> [j \in 1..EscalaPoints |->
                    EscalaCell(horas_calendario_escala, horas_preventiva_escala,
                               mtbf_valores[j], mttr_valores[i], metodo_atual)]]])

(* ----------------------- pages: session state ------------------------- *)
\* if key not in st.session_state: st.session_state[key] = value
SetDefault(s, key, value) ==
    IF key \in DOMAIN s THEN s
    ELSE [k \in DOMAIN s \cup {key} |-> IF k = key THEN value ELSE s[k]]
\* st.session_state[key] = value
SetKey(s, key, value) ==
    [k \in DOMAIN s \cup {key} |-> IF k = key THEN value ELSE s[k]]

\* pages/1_Matriz_MTBFxMTTR.py, lines 14-23
MatrizDefaults(s) ==
    SetDefault(SetDefault(SetDefault(SetDefault(SetDefault(s,
        "df_meta", Rat(92, 100)),
        "uf_meta", Rat(85, 100)),
        "mtbf", Rat(500, 1)),
        "mttr", Rat(25, 1)),
        "pm_downtime_mensal", Rat(8, 1))

\* f'{n:02d}': the decimal digits of n (n >= 0), padded with a 0 to two
Format02d(n) ==
    IF n < 10 THEN <<0, n>>
    ELSE IF n < 100 THEN <<n \div 10, n % 10>>
    ELSE <<n \div 100, (n \div 10) % 10, n % 10>>
\* f'PF{n:02d}'
EquipId(n) == [prefix |-> "PF", digits |-> Format02d(n)]

FrotaColumns ==
    {"Equipamento", "Corretiva Real", "Preventiva Real", "Orcado DF",
     "Cor Orc (Mes)", "Prev Orc (Mes)", "MTBF (h)", "MTTR (h)"}
FrotaRow(equip, cor, prv, orcado, cor_orc, prev_orc, mtbf, mttr) ==
    [c \in FrotaColumns |->
        CASE c = "Equipamento" -> equip
          [] c = "Corretiva Real" -> cor
          [] c = "Preventiva Real" -> prv
          [] c = "Orcado DF" -> orcado
          [] c = "Cor Orc (Mes)" -> cor_orc
          [] c = "Prev Orc (Mes)" -> prev_orc
          [] c = "MTBF (h)" -> mtbf
          [] c = "MTTR (h)" -> mttr]

\* pages/2_Dashboard_Frota.py, lines 23-32: the example fleet
FrotaInicial ==
    <<FrotaRow(EquipId(5), Rat(2129, 100), Rat(3600, 100), Rat(7722, 100),
               Rat(5940, 100), Rat(11010, 100), Rat(300, 1), Rat(10, 1)),
      FrotaRow(EquipId(6), Rat(2600, 100), Rat(23871, 100), Rat(7117, 100),
               Rat(5280, 100), Rat(16170, 100), Rat(150, 1), Rat(25, 1)),
      FrotaRow(EquipId(7), Rat(10683, 100), Rat(736, 100), Rat(7731, 100),
               Rat(5400, 100), Rat(11480, 100), Rat(250, 1), Rat(15, 1))>>

\* pages/2_Dashboard_Frota.py, lines 17-32
FrotaDefaults(s) ==
    SetDefault(SetDefault(s, "df_meta", Rat(92, 1)), "dados_frota", FrotaInicial)

\* the row the button appends
NovoEquip(dados_editados, df_meta) ==
    FrotaRow(EquipId(Len(dados_editados) + 1), Zero, Zero, df_meta,
             Rat(50, 1), Rat(100, 1), Rat(300, 1), Rat(20, 1))

\* the table without row k
DeleteRow(dados, k) ==
    [i \in 1..(Len(dados) - 1) |-> IF i < k THEN dados[i] ELSE dados[i + 1]]
\* what st.data_editor can return when the user deletes at most one row
Editadas(dados) == {dados} \cup {DeleteRow(dados, k) : k \in 1..Len(dados)}

(* ------------------------ app.py: reverse mode ------------------------ *)
\* the preventive hours computed for the target, and the KPIs recomputed
\* from them when they are not negative (success branch)
modo_reverso(meta_df_reverso, horas_calendario_reverso, num_falhas_reverso, mttr_reverso, metodo_atual) ==
    LET horas_corretiva_reverso == RMul(Rat(num_falhas_reverso, 1), mttr_reverso)
        horas_preventiva_necessaria ==
            IF metodo_atual = "metodo1"
            THEN RSub(RSub(horas_calendario_reverso,
                           RMul(RDiv(meta_df_reverso, Hundred), horas_calendario_reverso)),
                      horas_corretiva_reverso)
            ELSE IF RGe(meta_df_reverso, Hundred) THEN Rat(-1, 1)
            ELSE LET mtbf_necessario ==
                         RDiv(RMul(mttr_reverso, meta_df_reverso),
                              RSub(Hundred, meta_df_reverso))
                     horas_disponiveis_necessarias ==
                         RMul(mtbf_necessario, Rat(num_falhas_reverso, 1))
                 IN  RSub(horas_calendario_reverso, horas_disponiveis_necessarias)
        sucesso == ~RLt(horas_preventiva_necessaria, Zero)
    IN  Return([horas_preventiva_necessaria |-> horas_preventiva_necessaria,
                sucesso |-> sucesso,
                kpis_reverso |->
                    IF sucesso
                    THEN calcular_kpis(horas_calendario_reverso,
                                       horas_preventiva_necessaria,
                                       horas_corretiva_reverso,
                                       num_falhas_reverso,
                                       metodo_atual).val
                    ELSE [df |-> NaN]])

(* ------------------------ core.py: fleet dashboard -------------------- *)
\* pd.Timestamp(data_referencia).days_in_month
DaysInMonth(data) ==
    IF data.month = 2
    THEN (IF (data.year % 4 = 0 /\ data.year % 100 # 0) \/ data.year % 400 = 0
          THEN 29 ELSE 28)
    ELSE IF data.month \in {4, 6, 9, 11} THEN 30
    ELSE 31

calcular_orcado_acumulado(orcado_mensal, dia_atual, dias_no_mes) ==
    RMul(RDiv(orcado_mensal, Rat(dias_no_mes, 1)), Rat(dia_atual, 1))

projetar_downtime_futuro(horas_restantes, mtbf, mttr) ==
    IF RLe(mtbf, Zero) THEN Zero
    ELSE LET falhas_esperadas == RDiv(horas_restantes, mtbf)
         IN  RMul(falhas_esperadas, mttr)

calcular_df_projetada_sem_max(downtime_real_acumulado, downtime_futuro_projetado, horas_totais_mes) ==
    LET downtime_total == RAdd(downtime_real_acumulado, downtime_futuro_projetado)
    IN  IF RLe(horas_totais_mes, Zero) THEN Zero
        ELSE RSub(One, RDiv(downtime_total, horas_totais_mes))

calcular_df_projetada(downtime_real_acumulado, downtime_futuro_projetado, horas_totais_mes) ==
    LET downtime_total == RAdd(downtime_real_acumulado, downtime_futuro_projetado)
    IN  IF RLe(horas_totais_mes, Zero) THEN Zero
        ELSE RMax(Zero, RSub(One, RDiv(downtime_total, horas_totais_mes)))

\* the columns processar_dados_frota adds to its copy of the table
FrotaDerivadas ==
    {"Cor Orc Acum", "Prev Orc Acum", "Saldo Cor", "Saldo Prev",
     "Downtime Real Total", "Downtime Futuro", "DF Projetada", "Diferenca", "Status"}

\* df: the sequence of rows of the table; the result is a new table, the
\* argument being copied first (df = df.copy())
processar_dados_frota(df, data_referencia) ==
    LET dia_atual == data_referencia.day
        dias_no_mes == DaysInMonth(data_referencia)
        horas_totais_mes == Rat(dias_no_mes * 24, 1)
        dias_restantes == dias_no_mes - dia_atual
        horas_restantes == Rat(dias_restantes * 24, 1)
        Linha(row) ==
            LET cor_acum == calcular_orcado_acumulado(row["Cor Orc (Mes)"], dia_atual, dias_no_mes)
                prev_acum == calcular_orcado_acumulado(row["Prev Orc (Mes)"], dia_atual, dias_no_mes)
                real_total == RAdd(row["Corretiva Real"], row["Preventiva Real"])
                futuro == projetar_downtime_futuro(horas_restantes, row["MTBF (h)"], row["MTTR (h)"])
                df_proj == calcular_df_projetada(real_total, futuro, horas_totais_mes)
                diferenca == RSub(df_proj, row["Orcado DF"])
            IN  [c \in DOMAIN row \cup FrotaDerivadas |->
                    CASE c = "Cor Orc Acum" -> cor_acum
                      [] c = "Prev Orc Acum" -> prev_acum
                      [] c = "Saldo Cor" -> RSub(cor_acum, row["Corretiva Real"])
                      [] c = "Saldo Prev" -> RSub(prev_acum, row["Preventiva Real"])
                      [] c = "Downtime Real Total" -> real_total
                      [] c = "Downtime Futuro" -> futuro
                      [] c = "DF Projetada" -> df_proj
                      [] c = "Diferenca" -> diferenca
                      [] c = "Status" -> IF RGe(diferenca, Zero) THEN "green" ELSE "red"
                      [] OTHER -> row[c]]
    IN  Return([i \in 1..Len(df) |-> Linha(df[i])])

(* ------------------------------ state --------------------------------- *)
\* fn/args/ret: the call of the current analysis, its arguments and its outcome
\* (fn = "none" between analyses: the functions keep no state of their own);
\* prev: the call whose result was passed on as this call's df_target;
\* curva: the DataFrame handed to the call, as the call leaves it;
\* calls: the scipy routines the call has invoked, in order;
\* session_state: Streamlit's per-session dictionary, shared by the pages
NoCall == [fn |-> "none", args |-> <<>>, ret |-> Return(Zero)]

Init ==
    /\ fn = "none"
    /\ args = <<>>
    /\ ret = Return(Zero)
    /\ prev = NoCall
    /\ curva = NoTable
    /\ calls = <<>>
    /\ session_state = <<>>

Idle == fn = "none"

Call(f, a, r, p) ==
    /\ fn' = f
    /\ args' = a
    /\ ret' = r
    /\ prev' = p
    /\ UNCHANGED <<curva, calls, session_state>>

Call_df_from_mtbf_mttr ==
    /\ Idle
    /\ \E mtbf \in Hours, mttr \in Hours :
        Call("df_from_mtbf_mttr", <<mtbf, mttr>>, df_from_mtbf_mttr(mtbf, mttr), NoCall)

Call_mttr_for_df ==
    /\ Idle
    /\ \E mtbf \in Hours, df_target \in Targets :
        Call("mttr_for_df", <<mtbf, df_target>>, mttr_for_df(mtbf, df_target), NoCall)

Call_mtbf_for_df ==
    /\ Idle
    /\ \E mttr \in Hours, df_target \in Targets :
        Call("mtbf_for_df", <<mttr, df_target>>, mtbf_for_df(mttr, df_target), NoCall)

\* a caller passing the availability just computed on as the target
Solve_mttr_for_df ==
    /\ fn = "df_from_mtbf_mttr"
    /\ \E mtbf \in Hours :
        Call("mttr_for_df", <<mtbf, ret.val>>, mttr_for_df(mtbf, ret.val),
             [fn |-> fn, args |-> args, ret |-> ret])

Solve_mtbf_for_df ==
    /\ fn = "df_from_mtbf_mttr"
    /\ \E mttr \in Hours :
        Call("mtbf_for_df", <<mttr, ret.val>>, mtbf_for_df(mttr, ret.val),
             [fn |-> fn, args |-> args, ret |-> ret])

Call_calculate_operational_df ==
    /\ Idle
    /\ \E inherent \in Targets, pm \in Hours, cal \in Hours :
        Call("calculate_operational_df", <<inherent, pm, cal>>,
             calculate_operational_df(inherent, pm, cal), NoCall)

Call_calcular_kpis ==
    /\ Idle
    /\ \E cal \in Hours, pm \in Hours, cor \in Hours, nf \in Falhas, metodo \in Metodos :
        Call("calcular_kpis", <<cal, pm, cor, nf, metodo>>,
             calcular_kpis(cal, pm, cor, nf, metodo), NoCall)

\* tab2 of the characteristic-curve page: the selector on an uploaded table
Call_calcular_ponto_otimo_intervencao ==
    /\ Idle
    /\ \E obs \in ObsSeqs, df_alvo \in DfAlvos,
          custo_preventiva \in CustosPreventiva, custo_corretiva \in CustosCorretiva :
        LET df_curva == [columns |-> CurvaColumns, rows |-> obs]
        IN  /\ fn' = "calcular_ponto_otimo_intervencao"
            /\ args' = <<df_curva, df_alvo, custo_preventiva, custo_corretiva>>
            /\ ret' = calcular_ponto_otimo_intervencao(
                          df_curva, df_alvo, custo_preventiva, custo_corretiva)
            /\ curva' = WithDfCalculada(df_curva)
            /\ prev' = NoCall
            /\ calls' = <<>>
            /\ UNCHANGED session_state

\* the selector with its default target and costs (df_alvo=85,
\* custo_preventiva=1000, custo_corretiva=5000) on the degradation scenario
Call_cenario ==
    /\ Idle
    /\ \E obs \in CenarioSeqs :
        LET df_curva == [columns |-> CurvaColumns, rows |-> obs]
        IN  /\ fn' = "calcular_ponto_otimo_intervencao"
            /\ args' = <<df_curva, Rat(85, 1), Rat(1000, 1), Rat(5000, 1)>>
            /\ ret' = calcular_ponto_otimo_intervencao(
                          df_curva, Rat(85, 1), Rat(1000, 1), Rat(5000, 1))
            /\ curva' = WithDfCalculada(df_curva)
            /\ prev' = NoCall
            /\ calls' = <<>>
            /\ UNCHANGED session_state

\* tab2: the degradation curve fitted to the uploaded table
Call_ajustar_curva_degradacao ==
    /\ Idle
    /\ \E obs \in FitSeqs :
       \E fit \in CurveFitOutcomes(Len(obs)) :
        LET df_curva == [columns |-> CurvaColumns, rows |-> obs]
            out == ajustar_curva_degradacao(df_curva, fit)
        IN  /\ fn' = "ajustar_curva_degradacao"
            /\ args' = <<df_curva, fit>>
            /\ ret' = out.ret
            /\ calls' = out.calls
            /\ curva' = df_curva
            /\ prev' = NoCall
            /\ UNCHANGED session_state

\* the matrix page renders its grid from the session's MTBF and MTTR
Call_Z_df ==
    /\ Idle
    /\ \E mtbf_atual \in SessionMtbfs, mttr_atual \in SessionMttrs :
        Call("Z_df", <<mtbf_atual, mttr_atual>>, Z_df(mtbf_atual, mttr_atual), NoCall)

\* the scale view renders its grid under the selected DF method
Call_df_matrix ==
    /\ Idle
    /\ \E cal \in EscalaCalendario, pm \in EscalaPreventiva,
          mtbf_range \in EscalaMtbfRanges, mttr_range \in EscalaMttrRanges,
          metodo_atual \in Metodos :
        Call("df_matrix", <<cal, pm, mtbf_range, mttr_range, metodo_atual>>,
             df_matrix(cal, pm, mtbf_range, mttr_range, metodo_atual), NoCall)

\* tab2, first step of the analysis: the selector on df_curva.copy(), with
\* the default costs of the form
Tab2_calcular_ponto_otimo_intervencao ==
    /\ Idle
    /\ \E obs \in FitSeqs, df_alvo \in DfAlvos :
        LET df_curva == [columns |-> CurvaColumns, rows |-> obs]
        IN  /\ fn' = "calcular_ponto_otimo_intervencao"
            /\ args' = <<df_curva, df_alvo, Rat(1000, 1), Rat(5000, 1)>>
            /\ ret' = calcular_ponto_otimo_intervencao(
                          df_curva, df_alvo, Rat(1000, 1), Rat(5000, 1))
            /\ curva' = WithDfCalculada(df_curva)
            /\ prev' = NoCall
            /\ calls' = <<>>
            /\ UNCHANGED session_state

\* tab2, second step: the fitter on df_curva, once the selector has returned
\* (an exception of the selector ends the script run)
Tab2_ajustar_curva_degradacao ==
    /\ fn = "calcular_ponto_otimo_intervencao"
    /\ ret.kind = "return"
    /\ \E fit \in CurveFitOutcomes(Len(args[1].rows)) :
        LET df_curva == args[1]
            out == ajustar_curva_degradacao(df_curva, fit)
        IN  /\ fn' = "ajustar_curva_degradacao"
            /\ args' = <<df_curva, fit>>
            /\ ret' = out.ret
            /\ calls' = out.calls
            /\ curva' = df_curva
            /\ prev' = [fn |-> fn, args |-> args, ret |-> ret]
            /\ UNCHANGED session_state

\* a run of a page script: the page, the value it shows as the DF target,
\* and the session state it leaves
PageRun(page, shown, s) ==
    /\ fn' = page
    /\ args' = <<>>
    /\ ret' = Return(shown)
    /\ prev' = NoCall
    /\ session_state' = s
    /\ UNCHANGED <<curva, calls>>

\* app.py does not touch the session state
Open_app ==
    /\ fn # "app"
    /\ PageRun("app", Zero, session_state)

\* pages/1_Matriz_MTBFxMTTR.py: defaults, then df_meta_matriz is read
Open_Matriz ==
    \E s \in {MatrizDefaults(session_state)} :
        PageRun("1_Matriz_MTBFxMTTR", s["df_meta"], s)

\* pages/2_Dashboard_Frota.py: defaults, the data editor, and the button
Open_Dashboard_Frota ==
    LET s == FrotaDefaults(session_state)
    IN  \E dados_editados \in Editadas(s["dados_frota"]), button \in BOOLEAN :
            /\ button => Len(dados_editados) < MaxFrota
            /\ LET s1 == SetKey(s, "dados_frota", dados_editados)
                   s2 == IF button
                         THEN SetKey(s1, "dados_frota",
                                     Append(s1["dados_frota"],
                                            NovoEquip(dados_editados, s1["df_meta"])))
                         ELSE s1
               IN  PageRun("2_Dashboard_Frota", s["df_meta"], s2)

\* "Modo Reverso" of the main page, under the selected DF method
Call_modo_reverso ==
    /\ Idle
    /\ \E meta \in MetasReverso, cal \in CalendarioReverso, nf \in Falhas,
          mttr \in MttrsReverso, metodo \in Metodos :
        Call("modo_reverso", <<meta, cal, nf, mttr, metodo>>,
             modo_reverso(meta, cal, nf, mttr, metodo), NoCall)

\* the dashboard processes a one-row table, or its example fleet with the
\* budgeted DF divided by 100, for the report date
Call_processar_dados_frota ==
    /\ Idle
    /\ \E df \in {<<row>> : row \in FrotaEntradas}
                 \cup {[i \in 1..Len(FrotaInicial) |->
                          [FrotaInicial[i] EXCEPT !["Orcado DF"] = RDiv(@, Hundred)]]},
          data_referencia \in Datas :
        Call("processar_dados_frota", <<df, data_referencia>>,
             processar_dados_frota(df, data_referencia), NoCall)

\* the caller is done with the result; the next analysis starts afresh
Finish ==
    /\ ~Idle
    /\ fn' = "none"
    /\ args' = <<>>
    /\ ret' = Return(Zero)
    /\ prev' = NoCall
    /\ curva' = NoTable
    /\ calls' = <<>>
    /\ UNCHANGED session_state

Next ==
    \/ Call_df_from_mtbf_mttr
    \/ Call_mttr_for_df
    \/ Call_mtbf_for_df
    \/ Solve_mttr_for_df
    \/ Solve_mtbf_for_df
    \/ Call_calculate_operational_df
    \/ Call_calcular_kpis
    \/ Finish

Spec == Init /\ [][Next]_vars

\* the characteristic-curve analysis on its own
NextCurva ==
    \/ Call_calcular_ponto_otimo_intervencao
    \/ Finish

SpecCurva == Init /\ [][NextCurva]_vars

\* the two DF grids on their own
NextGrid ==
    \/ Call_Z_df
    \/ Call_df_matrix
    \/ Finish

SpecGrid == Init /\ [][NextGrid]_vars

\* the fleet projection on its own
NextFrota ==
    \/ Call_processar_dados_frota
    \/ Finish

SpecFrota == Init /\ [][NextFrota]_vars

\* reverse mode on its own
NextReverso ==
    \/ Call_modo_reverso
    \/ Finish

SpecReverso == Init /\ [][NextReverso]_vars

\* one browser session: the pages opened and rerun in any order
NextSessao ==
    \/ Open_app
    \/ Open_Matriz
    \/ Open_Dashboard_Frota

SpecSessao == Init /\ [][NextSessao]_vars

\* one curve analysis of tab2: selector, then fitter
NextAnalise ==
    \/ Tab2_calcular_ponto_otimo_intervencao
    \/ Tab2_ajustar_curva_degradacao
    \/ Finish

SpecAnalise == Init /\ [][NextAnalise]_vars

\* the curve fitter on its own
NextAjuste ==
    \/ Call_ajustar_curva_degradacao
    \/ Finish

SpecAjuste == Init /\ [][NextAjuste]_vars

\* the degradation scenario on its own
NextCenario ==
    \/ Call_cenario
    \/ Finish

SpecCenario == Init /\ [][NextCenario]_vars

(* ============================== claims ================================ *)
InUnit(x) == RGe(x, Zero) /\ RLe(x, One)
OutsideOpenUnit(x) == RLe(x, Zero) \/ RGe(x, One)

\* C1: availability returns exactly mtbf/(mtbf+mttr) whenever mtbf+mttr # 0
\* (the result times the sum gives back mtbf), and returns 0 without raising
\* when mtbf+mttr = 0.
C1_Availability ==
    fn = "df_from_mtbf_mttr" =>
        LET soma == RAdd(args[1], args[2])
        IN  /\ ret.kind = "return"
            /\ IsFinite(ret.val)
            /\ soma # Zero => RMul(ret.val, soma) = args[1]
            /\ soma = Zero => ret.val = Zero

C1_Witness ==
    /\ fn = "df_from_mtbf_mttr"
    /\ args[1] # Zero
    /\ RAdd(args[1], args[2]) = Zero
    /\ ret = Return(Zero)

\* C2: round trip. For mtbf > 0 and mttr > 0, solving for the MTBF (the MTTR)
\* that reaches availability(mtbf, mttr) with the same mttr (mtbf) gives back
\* exactly mtbf (mttr).
C2_RoundTrip ==
    (/\ prev.fn = "df_from_mtbf_mttr"
     /\ RGt(prev.args[1], Zero)
     /\ RGt(prev.args[2], Zero)
     /\ args[2] = prev.ret.val) =>
        /\ (fn = "mtbf_for_df" /\ args[1] = prev.args[2]) => ret = Return(prev.args[1])
        /\ (fn = "mttr_for_df" /\ args[1] = prev.args[1]) => ret = Return(prev.args[2])

C2_Witness ==
    /\ prev.fn = "df_from_mtbf_mttr"
    /\ fn = "mtbf_for_df"
    /\ RGt(prev.args[1], Zero)
    /\ RGt(prev.args[2], Zero)
    /\ prev.args[1] # prev.args[2]
    /\ args = <<prev.args[2], prev.ret.val>>
    /\ ret = Return(prev.args[1])

\* C3 as stated: for df_target <= 0, mttr_for_target gives an outcome that is
\* neither a returned 0 nor the returned infinity sentinel.
C3_InfeasibleSignal ==
    (fn = "mttr_for_df" /\ RLe(args[2], Zero)) =>
        ~(ret.kind = "return" /\ (ret.val = Zero \/ IsInf(ret.val)))

\* C3 amended: for every mtbf and every df_target <= 0 (0.0 included),
\* mttr_for_target returns the infinity sentinel: never 0, never a finite
\* number, never an exception.
C3_ReturnsInf ==
    (fn = "mttr_for_df" /\ RLe(args[2], Zero)) => ret = Return(Inf)

C3_Witness ==
    /\ fn = "mttr_for_df"
    /\ args[2] = Zero
    /\ RGt(args[1], Zero)
    /\ ret = Return(Inf)

\* C4 as stated: for a df_target outside (0,1) neither reverse solver returns a
\* plain number; the outcome is a tagged signal.
C4_TaggedOutcome ==
    (fn \in {"mttr_for_df", "mtbf_for_df"} /\ OutsideOpenUnit(args[2])) =>
        ret.kind # "return"

\* C4 amended: for a df_target outside (0,1) both reverse solvers skip the
\* formula and return a plain float sentinel without raising: mttr_for_target
\* gives 0 for df_target >= 1 and infinity for df_target <= 0, mtbf_for_target
\* gives infinity for df_target >= 1 and 0 for df_target <= 0.
C4_PlainSentinel ==
    (fn \in {"mttr_for_df", "mtbf_for_df"} /\ OutsideOpenUnit(args[2])) =>
        /\ ret.kind = "return"
        /\ ret.val = Zero \/ IsInf(ret.val)
        /\ IsInf(ret.val) <=> ((fn = "mttr_for_df") <=> RLe(args[2], Zero))

C4_Witness ==
    /\ fn = "mtbf_for_df"
    /\ RLt(args[2], Zero)
    /\ args[1] # Zero
    /\ ret = Return(Zero)

\* C5: for df_target >= 1, mtbf_for_target returns the infinity sentinel (no
\* finite number, no exception); for df_target = 0 it returns 0, never
\* infinity.
C5_MtbfUnbounded ==
    fn = "mtbf_for_df" =>
        /\ RGe(args[2], One) => ret = Return(Inf)
        /\ args[2] = Zero => (ret # Return(Inf) /\ (ret.kind = "return" => ret.val = Zero))

C5_Witness ==
    /\ fn = "mtbf_for_df"
    /\ args[2] = One
    /\ RGt(args[1], Zero)
    /\ ret = Return(Inf)

\* C6: mttr_for_target returns mtbf*(1-df_target)/df_target for
\* 0 < df_target < 1 (the result times df_target is mtbf*(1-df_target)) and
\* exactly 0 for df_target >= 1.
C6_MttrFormula ==
    fn = "mttr_for_df" =>
        /\ (RGt(args[2], Zero) /\ RLt(args[2], One)) =>
              /\ ret.kind = "return"
              /\ IsFinite(ret.val)
              /\ RMul(ret.val, args[2]) = RMul(args[1], RSub(One, args[2]))
        /\ RGe(args[2], One) => ret = Return(Zero)

C6_Witness ==
    /\ fn = "mttr_for_df"
    /\ prev.fn = "none"
    /\ args = <<Rat(3, 1), Rat(3, 4)>>
    /\ ret = Return(One)

\* C7: for inherent_df in [0,1], pm_hours >= 0 and calendar_hours >= 0,
\* operational_df returns a value in [0,1].
C7_Clamping ==
    (/\ fn = "calculate_operational_df"
     /\ InUnit(args[1])
     /\ RGe(args[2], Zero)
     /\ RGe(args[3], Zero)) =>
        /\ ret.kind = "return"
        /\ IsFinite(ret.val)
        /\ InUnit(ret.val)

C7_Witness ==
    /\ fn = "calculate_operational_df"
    /\ InUnit(args[1])
    /\ args[1] # Zero
    /\ RGt(args[3], Zero)
    /\ RGt(args[2], args[3])
    /\ ret = Return(Zero)

\* C8: for calendar_hours > 0, operational_df returns
\* max(0, inherent_df - pm_hours/calendar_hours): the result times
\* calendar_hours is inherent_df*calendar_hours - pm_hours when that is
\* positive, and the result is 0 otherwise.
C8_AdditivePM ==
    (fn = "calculate_operational_df" /\ RGt(args[3], Zero)) =>
        LET margem == RSub(RMul(args[1], args[3]), args[2])
        IN  /\ ret.kind = "return"
            /\ RGe(ret.val, Zero)
            /\ RGt(margem, Zero) => RMul(ret.val, args[3]) = margem
            /\ RLe(margem, Zero) => ret.val = Zero

C8_Witness ==
    /\ fn = "calculate_operational_df"
    /\ args = <<Rat(3, 4), One, Rat(2, 1)>>
    /\ ret = Return(Rat(1, 4))

\* C9: under metodo1 the DF of calcular_kpis is
\* (calendar - pm - corrective)/calendar in percent, clamped to [0,100]: with
\* pm + corrective > calendar it is 0, never negative.
C9_TotalDFClamped ==
    (/\ fn = "calcular_kpis"
     /\ args[5] = "metodo1"
     /\ RGt(args[1], Zero)
     /\ RGe(args[2], Zero)
     /\ RGe(args[3], Zero)) =>
        /\ ret.kind = "return"
        /\ RGe(ret.val.df, Zero)
        /\ RLe(ret.val.df, Hundred)
        /\ RGt(RAdd(args[2], args[3]), args[1]) => ret.val.df = Zero

\* valid observations: positive MTBF and MTTR, ordered by time
ValidObs(rows) ==
    /\ \A i \in 1..Len(rows) :
          RGt(rows[i].mtbf_observado, Zero) /\ RGt(rows[i].mttr_observado, Zero)
    /\ \A i \in 1..Len(rows), j \in 1..Len(rows) :
          i <= j => RLe(rows[i].tempo_desde_preventiva_horas,
                        rows[j].tempo_desde_preventiva_horas)

\* C10: the selector never returns optimal_time = 0 when some observation
\* has time_since_pm > 0 (the observation at t = 0 is no candidate); stated
\* for valid observations and a positive PM cost, where every t > 0 has a
\* positive cost per hour.
C10_ZeroExcluded ==
    (/\ fn = "calcular_ponto_otimo_intervencao"
     /\ ret.kind = "return"
     /\ ValidObs(args[1].rows)
     /\ RGt(args[3], Zero)
     /\ \E i \in 1..Len(args[1].rows) :
            RGt(args[1].rows[i].tempo_desde_preventiva_horas, Zero)) =>
        ret.val.tempo_otimo # Zero

\* the DF test of a raw observation row, by cross-multiplication:
\* 100 * mtbf >= limite * (mtbf + mttr), false for a 0/0 row
RowMeets(row, limite) ==
    /\ RGt(RAdd(row.mtbf_observado, row.mttr_observado), Zero)
    /\ RGe(RMul(Hundred, row.mtbf_observado),
           RMul(limite, RAdd(row.mtbf_observado, row.mttr_observado)))

SelectorReturned == fn = "calcular_ponto_otimo_intervencao" /\ ret.kind = "return"

\* the labels of the rows within the 5% band of the target, from the raw rows
Band == {i \in 1..Len(args[1].rows) : RowMeets(args[1].rows[i], RMul(args[2], Rat(95, 100)))}
\* the candidate set: the band, or every row when the band is empty
Candidates == IF Band # {} THEN Band ELSE 1..Len(args[1].rows)
\* the labels whose row of df_custos is the returned point
Chosen ==
    {i \in 1..Len(args[1].rows) :
        /\ ret.val.df_custos[i].tempo = ret.val.tempo_otimo
        /\ ret.val.df_custos[i].df = ret.val.df_no_ponto_otimo
        /\ ret.val.df_custos[i].custo_por_hora = ret.val.custo_por_hora_otimo}

\* C11: the candidate set is the sampled times with DF(t) >= 0.95 * df_target;
\* if a sample satisfies this the returned point is one of them (its DF is
\* within the band), and only when none does is the point taken from the full
\* set, where its cost per hour is the least of all rows.
C11_CandidateBand ==
    SelectorReturned =>
        /\ Band # {} =>
              /\ Chosen \cap Band # {}
              /\ PGe(ret.val.df_no_ponto_otimo, RMul(args[2], Rat(95, 100)))
        /\ Band = {} =>
              /\ Chosen # {}
              /\ \A j \in 1..Len(args[1].rows) :
                    RLe(ret.val.custo_por_hora_otimo, ret.val.df_custos[j].custo_por_hora)

\* a row outside the band is strictly cheaper than the returned point, which
\* lies in the band but below the target itself
C11_Witness ==
    /\ SelectorReturned
    /\ Band # {}
    /\ ~PGe(ret.val.df_no_ponto_otimo, args[2])
    /\ \E j \in 1..Len(args[1].rows) :
          /\ j \notin Band
          /\ RLt(ret.val.df_custos[j].custo_por_hora, ret.val.custo_por_hora_otimo)

Sorted(rows) ==
    \A i \in 1..Len(rows), j \in 1..Len(rows) :
        i <= j => RLe(rows[i].tempo_desde_preventiva_horas,
                      rows[j].tempo_desde_preventiva_horas)

\* C12: the returned point is a candidate whose cost per hour is <= that of
\* every candidate, and for observations ordered by non-decreasing time it has
\* the smallest time among the candidates of that minimal cost.
C12_MinCostEarliest ==
    SelectorReturned =>
        /\ Chosen \cap Candidates # {}
        /\ \A j \in Candidates :
              RLe(ret.val.custo_por_hora_otimo, ret.val.df_custos[j].custo_por_hora)
        /\ Sorted(args[1].rows) =>
              \A j \in Candidates :
                  ret.val.df_custos[j].custo_por_hora = ret.val.custo_por_hora_otimo
                      => RLe(ret.val.tempo_otimo, ret.val.df_custos[j].tempo)

\* two candidates at different positive times share the minimal cost per hour
C12_Witness ==
    /\ SelectorReturned
    /\ Sorted(args[1].rows)
    /\ RGt(ret.val.tempo_otimo, Zero)
    /\ RGt(ret.val.custo_por_hora_otimo, Zero)
    /\ \E j \in Candidates :
          /\ ret.val.df_custos[j].custo_por_hora = ret.val.custo_por_hora_otimo
          /\ RGt(ret.val.df_custos[j].tempo, ret.val.tempo_otimo)

\* the labels of the rows meeting the target itself, from the raw rows
Meeting == {i \in 1..Len(args[1].rows) : RowMeets(args[1].rows[i], args[2])}

\* C13: max_time_meeting_target is the largest sampled time whose DF(t) >=
\* df_target with no tolerance, and 0 when no sample meets the target; it is
\* a function of the observations and the target alone (no cost enters).
C13_MaxTimeMeetingTarget ==
    SelectorReturned =>
        /\ Meeting = {} => ret.val.tempo_max_alvo = Zero
        /\ Meeting # {} =>
              /\ \E i \in Meeting :
                    ret.val.tempo_max_alvo = args[1].rows[i].tempo_desde_preventiva_horas
              /\ \A i \in Meeting :
                    RLe(args[1].rows[i].tempo_desde_preventiva_horas, ret.val.tempo_max_alvo)

\* a later row lies in the tolerance band only and is not counted
C13_Witness ==
    /\ SelectorReturned
    /\ Meeting # {}
    /\ RGt(args[3], Zero)
    /\ \E j \in Band \ Meeting :
          RGt(args[1].rows[j].tempo_desde_preventiva_horas, ret.val.tempo_max_alvo)

\* C14: on the scenario (0,200), (100,150), (200,100) with PM cost 1000,
\* corrective cost 5000 per failure and target 85, the selector returns a
\* time strictly between 0 and 200 whose cost per hour is <= the cost per
\* hour at t = 0 and at t = 200.
\* Stated for the scenarios where the observation at t = 100 lies in the
\* band and costs no more per hour than the one at t = 200, so that t = 100
\* is the answer once t = 0 is left out.
C14_Scenario ==
    (/\ SelectorReturned
     /\ args[1].rows \in CenarioSeqs
     /\ 2 \in Band
     /\ RLe(ret.val.df_custos[2].custo_por_hora, ret.val.df_custos[3].custo_por_hora)) =>
        /\ RGt(ret.val.tempo_otimo, Zero)
        /\ RLt(ret.val.tempo_otimo, Rat(200, 1))
        /\ RLe(ret.val.custo_por_hora_otimo, ret.val.df_custos[1].custo_por_hora)
        /\ RLe(ret.val.custo_por_hora_otimo, ret.val.df_custos[3].custo_por_hora)

(* ---------------------------- curve fitter ---------------------------- *)
FitterCalled == fn = "ajustar_curva_degradacao"
FitterReturned == FitterCalled /\ ret.kind = "return"
DistinctTimes == Range(Tempos(args[1]))
IsNumber(v) == DOMAIN v = {"n", "d"}

\* C15: a fitter given fewer than 2 distinct observation times signals
\* InsufficientData (it raises) and calls neither curve_fit nor interp1d.
C15_InsufficientData ==
    (FitterCalled /\ Cardinality(DistinctTimes) < 2) =>
        /\ ret.kind = "raise"
        /\ calls = <<>>

\* C16: whenever curve_fit is called the fitter returns (a raise of curve_fit
\* is not propagated); the returned curve has NumPoints points whose x values
\* start at the smallest and end at the largest observed time, on either
\* path; and when curve_fit raised, the y values are those of the linear
\* interpolation.
C16_SilentFallback ==
    (FitterCalled /\ calls # <<>> /\ calls[1] = "curve_fit") =>
        /\ ret.kind = "return"
        /\ Len(ret.val.x_fit) = NumPoints
        /\ Len(ret.val.y_fit) = NumPoints
        /\ ret.val.x_fit[1] = SeriesMin(DistinctTimes)
        /\ ret.val.x_fit[NumPoints] = SeriesMax(DistinctTimes)
        /\ \A i \in 1..(NumPoints - 1) : RLe(ret.val.x_fit[i], ret.val.x_fit[i + 1])
        /\ args[2].raises =>
            /\ calls = <<"curve_fit", "interp1d">>
            /\ \A i \in 1..NumPoints :
                /\ IsNumber(ret.val.y_fit[i])
                /\ ret.val.y_fit[i] =
                     Interp1d(Tempos(args[1]), Mtbfs(args[1]), ret.val.x_fit[i])
        /\ ~args[2].raises =>
            \A i \in 1..NumPoints : ~IsNumber(ret.val.y_fit[i])

\* curve_fit raised on three observations at three distinct times
C16_Witness ==
    /\ FitterReturned
    /\ Len(args[1].rows) = 3
    /\ Cardinality(DistinctTimes) = 3
    /\ args[2].raises
    /\ calls = <<"curve_fit", "interp1d">>

\* C17: with exactly two observations at distinct times the curve comes from
\* interp1d, not from the exponential, and its first and last points are the
\* two observed (time, MTBF) points.
C17_TwoPoints ==
    (FitterCalled /\ Len(args[1].rows) = 2 /\ Cardinality(DistinctTimes) = 2) =>
        /\ ret.kind = "return"
        /\ calls = <<"curve_fit", "interp1d">>
        /\ ret.val.popt.tag = "None"
        /\ \A r \in 1..2 :
            LET row == args[1].rows[r]
                other == args[1].rows[3 - r]
                i == IF RLt(row.tempo_desde_preventiva_horas,
                            other.tempo_desde_preventiva_horas)
                     THEN 1 ELSE NumPoints
            IN  /\ ret.val.x_fit[i] = row.tempo_desde_preventiva_horas
                /\ ret.val.y_fit[i] = row.mtbf_observado

\* two observations given latest first, with different MTBF
C17_Witness ==
    /\ FitterReturned
    /\ Len(args[1].rows) = 2
    /\ RGt(args[1].rows[1].tempo_desde_preventiva_horas,
           args[1].rows[2].tempo_desde_preventiva_horas)
    /\ args[1].rows[1].mtbf_observado # args[1].rows[2].mtbf_observado

\* C18: the third element of the result is None exactly when interp1d
\* produced the curve and is the parameters curve_fit returned exactly when
\* the exponential produced it; a raise of curve_fit never leaves the fitter.
C18_PathTag ==
    FitterCalled =>
        /\ (calls # <<>> /\ calls[1] = "curve_fit") => ret.kind = "return"
        /\ ret.kind = "return" =>
            /\ ret.val.popt.tag = "None" <=> calls[Len(calls)] = "interp1d"
            /\ ret.val.popt.tag = "None" <=>
                 \A i \in 1..NumPoints : IsNumber(ret.val.y_fit[i])
            /\ ret.val.popt.tag # "None" <=>
                 /\ calls = <<"curve_fit">>
                 /\ ~args[2].raises
                 /\ ret.val.popt = args[2].popt
                 /\ \A i \in 1..NumPoints :
                      ret.val.y_fit[i] = func_exp(ret.val.x_fit[i], args[2].popt)

\* curve_fit returned finite parameters and the exponential was sampled
C18_Witness ==
    /\ FitterReturned
    /\ calls = <<"curve_fit">>
    /\ ret.val.popt.tag = "ndarray"
    /\ IsFinite(ret.val.popt.a)

(* ------------------------------ DF grids ------------------------------ *)
\* v is the scalar availability of (mtbf, mttr), as a percentage
IsAvailabilityPct(v, mtbf, mttr) ==
    v = RMul(Hundred, df_from_mtbf_mttr(mtbf, mttr).val)

\* C19 as stated: every cell of either grid is the availability of its own
\* MTBF and MTTR (read up to the percent scale of the scale view), whichever
\* DF method is selected.
C19_AllCellsAvailability ==
    /\ fn = "Z_df" =>
        \A i, j \in 1..MatrizPoints :
            ret.val.Z_df[i][j] =
                df_from_mtbf_mttr(ret.val.mtbf_range[j], ret.val.mttr_range[i]).val
    /\ fn = "df_matrix" =>
        \A i, j \in 1..EscalaPoints :
            IsAvailabilityPct(ret.val.df_matrix[i][j],
                              ret.val.mtbf_valores[j], ret.val.mttr_valores[i])

\* C19 amended: every cell of the matrix page's grid is mtbf / (mtbf + mttr)
\* of its own coordinates; every cell of the scale view's grid is 100 times
\* that under method 2, and under method 1 it is the total DF
\* 100 * (calendar - PM - n * mttr) / calendar (0 when calendar <= 0) with
\* n = max(1, int((calendar - PM) / mtbf)) estimated failures.
C19_GridCells ==
    /\ fn = "Z_df" =>
        \A i, j \in 1..MatrizPoints :
            ret.val.Z_df[i][j] =
                df_from_mtbf_mttr(ret.val.mtbf_range[j], ret.val.mttr_range[i]).val
    /\ (fn = "df_matrix" /\ args[5] = "metodo2") =>
        \A i, j \in 1..EscalaPoints :
            IsAvailabilityPct(ret.val.df_matrix[i][j],
                              ret.val.mtbf_valores[j], ret.val.mttr_valores[i])
    /\ (fn = "df_matrix" /\ args[5] = "metodo1") =>
        \A i, j \in 1..EscalaPoints :
            LET cal == args[1]
                pm == args[2]
                q == PyInt(RDiv(RSub(cal, pm), ret.val.mtbf_valores[j]))
                n == IF q > 1 THEN q ELSE 1
                op == RSub(RSub(cal, pm), RMul(Rat(n, 1), ret.val.mttr_valores[i]))
            IN  IF RGt(cal, Zero)
                THEN ret.val.df_matrix[i][j] = RMul(Hundred, RDiv(op, cal))
                ELSE ret.val.df_matrix[i][j] = Zero

\* the scale view under method 1 with its default inputs: the first cell
\* (MTBF 50, MTTR 2) is not the availability of its coordinates
C19_Witness ==
    /\ fn = "df_matrix"
    /\ args = <<Rat(720, 1), Rat(40, 1), <<Rat(50, 1), Rat(300, 1)>>,
                <<Rat(2, 1), Rat(20, 1)>>, "metodo1">>
    /\ ~IsAvailabilityPct(ret.val.df_matrix[1][1], Rat(50, 1), Rat(2, 1))

(* --------------------------- input validation ------------------------- *)
Negative(x) == RLt(x, Zero)
\* an argument of the current call lies outside its domain: a negative MTBF,
\* MTTR or number of hours
OutOfDomain ==
    \/ fn \in {"df_from_mtbf_mttr"} /\ (Negative(args[1]) \/ Negative(args[2]))
    \/ fn \in {"mttr_for_df", "mtbf_for_df"} /\ Negative(args[1])
    \/ fn = "calculate_operational_df" /\ (Negative(args[2]) \/ Negative(args[3]))
    \/ fn = "calcular_kpis" /\ \E k \in 1..3 : Negative(args[k])

\* C20: a call with an out-of-domain argument is rejected: it does not return
\* a computed number.
C20_InvalidInputRejected ==
    OutOfDomain => ret.kind # "return"

(* ----------------------------- frame effects -------------------------- *)
\* C21: after a call of the selector the table object it was handed has the
\* columns and values it had before the call.
C21_InputUnchanged ==
    fn = "calcular_ponto_otimo_intervencao" => curva = args[1]

(* ----------------------------- monotonicity --------------------------- *)
\* C22: for an availability computed from positive mtbf and mttr, every larger
\* mtbf with the same mttr gives a strictly larger availability and every
\* larger mttr with the same mtbf a strictly smaller one.
C22_Monotone ==
    (fn = "df_from_mtbf_mttr" /\ RGt(args[1], Zero) /\ RGt(args[2], Zero)) =>
        /\ \A mtbf \in Hours :
            RGt(mtbf, args[1]) =>
                RGt(df_from_mtbf_mttr(mtbf, args[2]).val, ret.val)
        /\ \A mttr \in Hours :
            RGt(mttr, args[2]) =>
                RLt(df_from_mtbf_mttr(args[1], mttr).val, ret.val)

\* an availability of positive inputs that both a larger mtbf and a larger
\* mttr can be compared with
C22_Witness ==
    /\ fn = "df_from_mtbf_mttr"
    /\ RGt(args[1], Zero)
    /\ RGt(args[2], Zero)
    /\ \E mtbf \in Hours : RGt(mtbf, args[1])
    /\ \E mttr \in Hours : RGt(mttr, args[2])

(* ----------------------- non-finite fit parameters -------------------- *)
\* C23: when curve_fit returns parameters of which one is NaN or infinite,
\* the fitter calls interp1d and returns the interpolated curve (parameter
\* slot None), not the exponential of those parameters.
C23_NonFiniteFallback ==
    (/\ FitterCalled
     /\ calls # <<>> /\ calls[1] = "curve_fit"
     /\ ~args[2].raises
     /\ \/ ~IsFinite(args[2].popt.a)
        \/ ~IsFinite(args[2].popt.b)
        \/ ~IsFinite(args[2].popt.c)) =>
        /\ calls = <<"curve_fit", "interp1d">>
        /\ ret.kind = "return"
        /\ ret.val.popt.tag = "None"
        /\ \A i \in 1..NumPoints : IsNumber(ret.val.y_fit[i])

(* ------------------------- order of the analysis ---------------------- *)
\* C24 as stated: when the selector is called, the fitter has already run in
\* this analysis (its result is what the selector works from).
C24_FitterFirst ==
    fn = "calcular_ponto_otimo_intervencao" =>
        prev.fn = "ajustar_curva_degradacao"

\* C24 amended: the selector runs first, before any fitting routine has been
\* called; the fitter runs after the selector has returned, on the same raw
\* rows; and the recommended time is the time of one of the raw rows,
\* whatever the fitter returns.
C24_SelectorOnRawRows ==
    /\ fn = "calcular_ponto_otimo_intervencao" =>
        /\ prev = NoCall
        /\ calls = <<>>
    /\ fn = "ajustar_curva_degradacao" =>
        /\ prev.fn = "calcular_ponto_otimo_intervencao"
        /\ prev.ret.kind = "return"
        /\ prev.args[1] = args[1]
        /\ prev.ret.val.tempo_otimo \in Range(Tempos(args[1]))
        /\ \E i \in 1..Len(args[1].rows) :
            /\ Tempos(args[1])[i] = prev.ret.val.tempo_otimo
            /\ prev.ret.val.df_custos[i].custo_por_hora
                 = prev.ret.val.custo_por_hora_otimo

\* the exponential was fitted after the selector had recommended a time
\* before the last observation
C24_Witness ==
    /\ fn = "ajustar_curva_degradacao"
    /\ prev.fn = "calcular_ponto_otimo_intervencao"
    /\ calls = <<"curve_fit">>
    /\ ret.kind = "return"
    /\ RLt(prev.ret.val.tempo_otimo, SeriesMax(Range(Tempos(args[1]))))

(* ------------------------------ total cost ---------------------------- *)
RECURSIVE SumOver(_, _)
\* the sum of f over the index set S
SumOver(S, f) ==
    IF S = {} THEN 0
    ELSE LET k == CHOOSE k \in S : TRUE
         IN  f[k] + SumOver(S \ {k}, f)

\* the failures of all observations up to time t
FailuresCumulative(rows, t) ==
    SumOver({j \in 1..Len(rows) : RLe(rows[j].tempo_desde_preventiva_horas, t)},
            [j \in 1..Len(rows) |-> rows[j].num_falhas])

\* C25: for every row, custo_total is custo_preventiva plus custo_corretiva
\* times the failures of all rows whose time is at most the row's time; and
\* (failure counts and costs being non-negative) a row with a later time
\* never has a smaller custo_total.
C25_TotalCost ==
    SelectorReturned =>
        LET rows == args[1].rows
            c == ret.val.df_custos
        IN  /\ Len(c) = Len(rows)
            /\ \A i \in 1..Len(rows) :
                /\ c[i].tempo = rows[i].tempo_desde_preventiva_horas
                /\ c[i].custo_total =
                     RAdd(args[3], RMul(Rat(FailuresCumulative(rows, c[i].tempo), 1),
                                        args[4]))
            /\ \A i, j \in 1..Len(rows) :
                RLe(c[i].tempo, c[j].tempo) => RLe(c[i].custo_total, c[j].custo_total)

\* two observations with a failure each, the later one listed first, and a
\* positive corrective cost: the later one carries both failures
C25_Witness ==
    /\ SelectorReturned
    /\ Len(args[1].rows) = 2
    /\ RGt(args[1].rows[1].tempo_desde_preventiva_horas,
           args[1].rows[2].tempo_desde_preventiva_horas)
    /\ args[1].rows[1].num_falhas = 1
    /\ args[1].rows[2].num_falhas = 1
    /\ RGt(args[4], Zero)
    /\ ret.val.df_custos[1].custo_total = RAdd(args[3], RMul(Rat(2, 1), args[4]))

(* ------------------------------ session ------------------------------- *)
\* C26: whatever pages were opened before, the DF target the matrix page
\* reads from the session is a fraction strictly between 0 and 1.
C26_DfMetaFraction ==
    fn = "1_Matriz_MTBFxMTTR" =>
        /\ RGt(ret.val, Zero)
        /\ RLt(ret.val, One)

\* C28: the equipment identifiers of the fleet table in the session are
\* pairwise distinct.
C28_DistinctEquipamento ==
    "dados_frota" \in DOMAIN session_state =>
        LET dados == session_state["dados_frota"]
        IN  \A i, j \in 1..Len(dados) :
                i # j => dados[i]["Equipamento"] # dados[j]["Equipamento"]

(* ----------------------------- reverse mode --------------------------- *)
\* C27: whenever reverse mode reports the preventive hours as achievable
\* (they are not negative), the DF that calcular_kpis computes from them
\* under the same method equals the requested target.
C27_ReverseRoundTrip ==
    (fn = "modo_reverso" /\ ret.val.sucesso) =>
        ret.val.kpis_reverso.df = args[1]

(* --------------------------- KPI hour breakdown ----------------------- *)
\* C29: for every input and both methods calcular_kpis returns finite
\* numbers (no division by zero happens): zero failures give mtbf = 0 and
\* mttr = 0, non-positive calendar hours give df = 0 under metodo1; and
\* horas_operadas + horas_preventiva + horas_corretiva + horas_standby equals
\* horas_calendario, with horas_standby >= 0.
C29_Partition ==
    fn = "calcular_kpis" =>
        /\ ret.kind = "return"
        /\ IsFinite(ret.val.df)
        /\ IsFinite(ret.val.mtbf)
        /\ IsFinite(ret.val.mttr)
        /\ IsFinite(ret.val.taxa_preventiva)
        /\ args[4] = 0 => (ret.val.mtbf = Zero /\ ret.val.mttr = Zero)
        /\ (args[5] = "metodo1" /\ RLe(args[1], Zero)) => ret.val.df = Zero
        /\ RAdd(RAdd(ret.val.horas_operadas, args[2]),
                RAdd(args[3], ret.val.horas_standby)) = args[1]
        /\ RGe(ret.val.horas_standby, Zero)

\* no failures and no calendar hours, with maintenance hours recorded
C29_Witness ==
    /\ fn = "calcular_kpis"
    /\ args[4] = 0
    /\ args[1] = Zero
    /\ RGt(args[2], Zero)
    /\ RGt(args[3], Zero)
    /\ ret.val.df = Zero

(* ---------------------------- fleet projection ------------------------ *)
\* the hours of the month of the report date, and those after the report day
HorasMes == DaysInMonth(args[2]) * 24
HorasRestantes == (DaysInMonth(args[2]) - args[2].day) * 24

\* C30: for every row whose downtime hours (Corretiva Real, Preventiva Real
\* and MTTR) are not negative, DF Projetada lies in [0,1] and is
\* max(0, 1 - (Corretiva Real + Preventiva Real + future downtime) / hours of
\* the month), where the future downtime is remaining hours / MTBF * MTTR, and
\* 0 when MTBF <= 0 or the report date is the last day of its month; and
\* Status is green exactly when DF Projetada >= Orcado DF.
C30_ProjectedDF ==
    fn = "processar_dados_frota" =>
        /\ ret.kind = "return"
        /\ Len(ret.val) = Len(args[1])
        /\ \A i \in 1..Len(args[1]) :
            LET row == args[1][i]
                res == ret.val[i]
                futuro == IF RLe(row["MTBF (h)"], Zero) \/ HorasRestantes = 0
                          THEN Zero
                          ELSE RDiv(RMul(Rat(HorasRestantes, 1), row["MTTR (h)"]),
                                    row["MTBF (h)"])
                parado == RAdd(RAdd(row["Corretiva Real"], row["Preventiva Real"]), futuro)
            IN  (/\ RGe(row["Corretiva Real"], Zero)
                 /\ RGe(row["Preventiva Real"], Zero)
                 /\ RGe(row["MTTR (h)"], Zero)) =>
                    /\ res["Downtime Futuro"] = futuro
                    /\ RGe(res["DF Projetada"], Zero)
                    /\ RLe(res["DF Projetada"], One)
                    /\ res["DF Projetada"] =
                         (IF RGe(parado, Rat(HorasMes, 1)) THEN Zero
                          ELSE RDiv(RSub(Rat(HorasMes, 1), parado), Rat(HorasMes, 1)))
                    /\ res["Status"] = "green" <=>
                         RGe(res["DF Projetada"], row["Orcado DF"])

\* a row whose downtime exceeds the hours of the month (DF Projetada clamped
\* to 0, red), processed before the last day with failures still projected
C30_Witness ==
    /\ fn = "processar_dados_frota"
    /\ Len(args[1]) = 1
    /\ HorasRestantes > 0
    /\ RGt(ret.val[1]["Downtime Futuro"], Zero)
    /\ RGt(RAdd(args[1][1]["Corretiva Real"], args[1][1]["Preventiva Real"]),
           Rat(HorasMes, 1))
    /\ ret.val[1]["DF Projetada"] = Zero
    /\ ret.val[1]["Status"] = "red"

====
